---- MODULE Spec2Model ----
(***************************************************************************)
(* The Marginal Child: benefit/credit formula engine (src/api/app_mock.py), *)
(* its three request handlers, and the batched marginal-child computation  *)
(* of the Streamlit application (src/calculations.py, src/app.py).         *)
(*                                                                         *)
(* Incomes are whole dollars, as the handlers produce them with range().   *)
(* Program amounts are kept in units of 1/Scale dollar, so that every rate *)
(* of the engine (0.0765, 0.1598, 0.2106, 0.085, ...) multiplies an        *)
(* integer income exactly; Python computes the same expressions in binary  *)
(* floating point, whose results lie within 1e-9 of the values here.  The  *)
(* float comparisons against k * FPG agree with the integer comparisons    *)
(* used here for every whole-dollar income and household size 1..12.       *)
(***************************************************************************)
EXTENDS Integers, Sequences, FiniteSets, TLC

Scale == 10 * 10 * 10 * 10

Max(a, b) == IF a >= b THEN a ELSE b
Min(a, b) == IF a <= b THEN a ELSE b

(***************************************************************************)
(* ProgramFormulas (src/api/app_mock.py)                                   *)
(***************************************************************************)
FPG_2024 == <<15060, 20440, 25820, 31200, 36580, 41960, 47340, 52720>>

get_fpg_off_by_one(household_size) ==
    IF household_size <= 8
    THEN IF household_size \in 1..8 THEN FPG_2024[household_size] ELSE FPG_2024[8]
    ELSE FPG_2024[8] + (household_size - 9) * 5380

get_fpg(household_size) ==
    IF household_size <= 8
    THEN IF household_size \in 1..8 THEN FPG_2024[household_size] ELSE FPG_2024[8]
    ELSE FPG_2024[8] + (household_size - 8) * 5380

max_benefit == <<291, 535, 766, 973, 1155, 1386>>

\* income > fpg * 1.3 -> 0; else max(0, max_monthly - (income / 12) * 0.3) * 12
calculate_snap_no_gross_test(income, household_size) ==
    LET max_monthly == IF household_size \in 1..6
                       THEN max_benefit[household_size]
                       ELSE 1386 + (household_size - 6) * 200
    IN  Max(0, 12 * max_monthly * Scale - income * 3 * (Scale \div 10))

calculate_snap(income, household_size) ==
    LET fpg == get_fpg(household_size)
        max_monthly == IF household_size \in 1..6
                       THEN max_benefit[household_size]
                       ELSE 1386 + (household_size - 6) * 200
    IN  IF income * 10 > fpg * 13
        THEN 0
        ELSE Max(0, 12 * max_monthly * Scale - income * 3 * (Scale \div 10))

\* the adult test taken before the children's test
calculate_medicaid_value_adult_first(income, household_size, num_children) ==
    LET fpg == get_fpg(household_size)
    IN  IF income * 100 < fpg * 138
        THEN 6000 * Scale
        ELSE IF num_children > 0 /\ income < fpg * 2
             THEN num_children * 3000 * Scale
             ELSE 0

calculate_medicaid_value(income, household_size, num_children) ==
    LET fpg == get_fpg(household_size)
    IN  IF num_children > 0 /\ income < fpg * 2
        THEN num_children * 3000 * Scale
        ELSE IF income * 100 < fpg * 138
             THEN 6000 * Scale
             ELSE 0

\* The per-bucket constants; rates are in 1/Scale.
eitc_params(num_children, married) ==
    IF num_children = 0
    THEN [max_credit |-> 600, phase_in_rate |-> 765, plateau_start |-> 7830,
          phase_out_start |-> IF married THEN 17640 ELSE 9800,
          phase_out_rate |-> 765]
    ELSE IF num_children = 1
    THEN [max_credit |-> 3995, phase_in_rate |-> 3400, plateau_start |-> 11750,
          phase_out_start |-> IF married THEN 29550 ELSE 22300,
          phase_out_rate |-> 1598]
    ELSE IF num_children = 2
    THEN [max_credit |-> 6604, phase_in_rate |-> 4000, plateau_start |-> 16510,
          phase_out_start |-> IF married THEN 29550 ELSE 22300,
          phase_out_rate |-> 2106]
    ELSE [max_credit |-> 7430, phase_in_rate |-> 4500, plateau_start |-> 16510,
          phase_out_start |-> IF married THEN 29550 ELSE 22300,
          phase_out_rate |-> 2106]

eitc_piece_strict(income, p) ==
    IF income < p.plateau_start
    THEN Min(income * p.phase_in_rate, p.max_credit * Scale)
    ELSE IF income < p.phase_out_start
         THEN p.max_credit * Scale
         ELSE Max(0, p.max_credit * Scale
                     - (income - p.phase_out_start) * p.phase_out_rate)

eitc_piece(income, p) ==
    IF income <= p.plateau_start
    THEN Min(income * p.phase_in_rate, p.max_credit * Scale)
    ELSE IF income <= p.phase_out_start
         THEN p.max_credit * Scale
         ELSE Max(0, p.max_credit * Scale
                     - (income - p.phase_out_start) * p.phase_out_rate)

calculate_eitc(income, num_children, married) ==
    eitc_piece(income, eitc_params(num_children, married))

\* one credit per household instead of one per child
calculate_ctc_per_household(num_children) ==
    IF num_children > 0 THEN 2000 * Scale ELSE 0

calculate_ctc(num_children) == num_children * 2000 * Scale

calculate_wic(income, household_size, num_young_children) ==
    LET fpg == get_fpg(household_size)
    IN  IF income * 100 > fpg * 185
        THEN 0
        ELSE num_young_children * 600 * Scale

\* fpg_percent = income / fpg; the contribution rate is in 1/Scale.
contribution_rate_strict(income, fpg) ==
    IF income * 2 < fpg * 3 THEN 200
    ELSE IF income < fpg * 2 THEN 400
    ELSE IF income * 2 < fpg * 5 THEN 600
    ELSE IF income < fpg * 3 THEN 800
    ELSE 850

contribution_rate(income, fpg) ==
    IF income * 2 <= fpg * 3 THEN 200
    ELSE IF income <= fpg * 2 THEN 400
    ELSE IF income * 2 <= fpg * 5 THEN 600
    ELSE IF income <= fpg * 3 THEN 800
    ELSE 850

calculate_ptc_annual_benchmark(income, household_size) ==
    LET fpg == get_fpg(household_size)
    IN  IF income < fpg THEN 0
        ELSE IF income > fpg * 4 THEN 0
        ELSE Max(0, 12 * 5000 * Scale - income * contribution_rate(income, fpg))

calculate_ptc(income, household_size) ==
    LET fpg == get_fpg(household_size)
    IN  IF income < fpg THEN 0
        ELSE IF income > fpg * 4 THEN 0
        ELSE Max(0, 5000 * Scale - income * contribution_rate(income, fpg))

(***************************************************************************)
(* Requests.  A request carries every field the handlers read.  The sets   *)
(* below are the requests of a client that keeps to the documented domain  *)
(* (known marital status and state, amounts and counts >= 0, step > 0);    *)
(* the Open sets further down add what any client can post.                *)
(***************************************************************************)
MaxChildrenReq == 8
MaxSpan == 10
MaxIncomeK == 40
IncomeCap == 130000

MaritalStatuses == {"single", "married"}
States == {"TX", "CA"}
SpouseIncomes == {0, 12000}
ChildCounts == 0..MaxChildrenReq
HouseholdSizes == 1..(2 + MaxChildrenReq)

\* Incomes at which single calculations are requested: a coarse grid plus
\* the neighbourhood of every threshold of the formulas and of the bracket
\* lookup.
Thresholds ==
    UNION {{eitc_params(n, m).plateau_start, eitc_params(n, m).phase_out_start}
            : n \in 0..3, m \in BOOLEAN}
    \cup {(get_fpg(s) * k) \div 100
            : s \in HouseholdSizes, k \in {100, 130, 138, 150, 185, 200, 250, 300, 400}}
    \cup {60000}
    \cup {44726, 95376}

IncomePoints ==
    {k * 2500 : k \in 0..MaxIncomeK}
    \cup {x \in {t + d : t \in Thresholds, d \in -1..1} : x <= IncomeCap}

GridMins == {0, 20000}
GridMaxes == {k * 5000 : k \in 0..MaxSpan}
GridSteps == {5000, 10000}

None == <<>>
Some(v) == <<v>>

\* max_children is None when the request carries no such field.
NoGrid == [income_min |-> 0, income_max |-> 0, income_step |-> 1,
           max_children |-> None]
Grids == [income_min : GridMins, income_max : GridMaxes, income_step : GridSteps,
          max_children : {None}]
MarginalGrids == [income_min : GridMins, income_max : GridMaxes,
                  income_step : GridSteps, max_children : {None, Some(2)}]
\* The grid of a request that names none: params.get's defaults.
DefaultGrid == [income_min |-> 0, income_max |-> 200000, income_step |-> 2500,
                max_children |-> None]
PeGrids == [income_min : GridMins, income_max : GridMaxes, income_step : {10000},
            max_children : {None, Some(2)}]

Request(hh, g) ==
    [employment_income |-> hh.employment_income,
     spouse_income     |-> hh.spouse_income,
     marital_status    |-> hh.marital_status,
     num_children      |-> hh.num_children,
     state             |-> hh.state,
     income_min        |-> g.income_min,
     income_max        |-> g.income_max,
     income_step       |-> g.income_step,
     max_children      |-> g.max_children]

Households(incomes, kids) ==
    [employment_income : incomes, spouse_income : SpouseIncomes,
     marital_status : MaritalStatuses, num_children : kids, state : States]

\* Requests nothing stops a client from posting: the handlers read the JSON
\* body as it comes.
OpenHouseholds ==
    [employment_income : {0 - 1000, 0, 20000},
     spouse_income : {0 - 500, 0, 12000},
     marital_status : {"single", "married", "divorced"},
     num_children : {0 - 1, 0, 2},
     state : {"TX", "ZZ"}]

OpenGrids == [income_min : {0}, income_max : {10000}, income_step : {0, 5000},
              max_children : {None}]

NoParams == Request([employment_income |-> 0, spouse_income |-> 0,
                     marital_status |-> "single", num_children |-> 0,
                     state |-> "TX"], NoGrid)

NoLocals == [params_copy |-> NoParams, total_income |-> 0, household_size |-> 0,
             snap |-> 0, wic |-> 0, medicaid |-> 0, chip |-> 0, ptc |-> 0,
             eitc |-> 0, ctc |-> 0, cdcc |-> 0, total_benefits |-> 0,
             net_income |-> 0]

VARIABLES
    pc,               \* the handler running and its position
    params,           \* request.json
    it,               \* the next value of the range() iterator over incomes
    test_income,      \* loop variable of the income loop
    num_kids,         \* the next value of the inner loop over child counts
    prev_net_income,  \* None or Some(net income of the previous child count)
    locals,           \* the handler's locals at the last evaluated point
    results,          \* the list of records built so far
    response,         \* the JSON body (or DataFrame rows) returned
    args,             \* arguments of calculate_marginal_child_benefits
    oracle,           \* the simulator's behaviour in this run
    all_net_incomes,  \* all_net_incomes[n + 1]: net incomes with n children
    i,                \* index into income_points (from 0)
    cache,            \* st.cache_data: argument tuple -> stored return value
    grid,             \* the income grid of the batched strategy
    session_state,    \* st.session_state of one browser session
    widgets,          \* what the sidebar widgets return in the current rerun
    df,               \* main()'s local df: the frame the curves are drawn from
    computed_from     \* history: the arguments of the latest computing rerun

vars == <<pc, params, it, test_income, num_kids, prev_net_income, locals,
          results, response, args, oracle, all_net_incomes, i, cache, grid,
          session_state, widgets, df, computed_from>>

apiVars == <<params, it, test_income, prev_net_income, locals>>
batchVars == <<args, all_net_incomes, i>>
uiVars == <<grid, session_state, widgets, df, computed_from>>
appVars == <<cache, uiVars>>

(***************************************************************************)
(* BenefitEngine: each of the three handlers of src/api/app_mock.py        *)
(* carries its own copy of the evaluation.                                 *)
(***************************************************************************)
\* ptc = calculate_ptc(...) if medicaid == 0 else 0
ptc_if_no_medicaid_always(medicaid, total_income, household_size) ==
    calculate_ptc(total_income, household_size)

ptc_if_no_medicaid(medicaid, total_income, household_size) ==
    IF medicaid = 0 THEN calculate_ptc(total_income, household_size) ELSE 0

\* calculate_benefits, lines 123-145
benefits_body(p) ==
    LET income == p.employment_income
        spouse_income == p.spouse_income
        total_income == income + spouse_income
        household_size == 1 + (IF p.marital_status = "married" THEN 1 ELSE 0)
                            + p.num_children
        num_children == p.num_children
        snap == calculate_snap(total_income, household_size)
        wic == calculate_wic(total_income, household_size, Min(num_children, 2))
        medicaid == calculate_medicaid_value(total_income, household_size, num_children)
        chip == 0
        ptc == ptc_if_no_medicaid(medicaid, total_income, household_size)
        eitc == calculate_eitc(total_income, num_children, p.marital_status = "married")
        ctc == calculate_ctc(num_children)
        cdcc == IF num_children > 0 THEN Min(num_children * 1000, 3000) * Scale ELSE 0
        total_benefits == snap + wic + medicaid + chip + ptc + eitc + ctc + cdcc
        net_income == total_income * Scale + total_benefits
    IN  [params_copy |-> p, total_income |-> total_income,
         household_size |-> household_size,
         snap |-> snap, wic |-> wic, medicaid |-> medicaid, chip |-> chip,
         ptc |-> ptc, eitc |-> eitc, ctc |-> ctc, cdcc |-> cdcc,
         total_benefits |-> total_benefits, net_income |-> net_income]

\* The coarse bracket lookup, in percent.
marginal_rate(total_income) ==
    IF total_income > 95376 THEN 24
    ELSE IF total_income > 44726 THEN 22
    ELSE 12

\* market_income reported without the spouse's income
benefits_response_head_income(l) ==
    [snap |-> l.snap, wic |-> l.wic, medicaid |-> l.medicaid, chip |-> l.chip,
     premium_tax_credit |-> l.ptc, eitc |-> l.eitc, ctc |-> l.ctc,
     cdcc |-> l.cdcc, housing_subsidy |-> 0,
     total_benefits |-> l.total_benefits, net_income |-> l.net_income,
     market_income |-> l.params_copy.employment_income * Scale,
     federal_poverty_guideline |-> get_fpg(l.household_size),
     marginal_tax_rate |-> marginal_rate(l.total_income)]

benefits_response(l) ==
    [snap |-> l.snap, wic |-> l.wic, medicaid |-> l.medicaid, chip |-> l.chip,
     premium_tax_credit |-> l.ptc, eitc |-> l.eitc, ctc |-> l.ctc,
     cdcc |-> l.cdcc, housing_subsidy |-> 0,
     total_benefits |-> l.total_benefits, net_income |-> l.net_income,
     market_income |-> l.total_income * Scale,
     federal_poverty_guideline |-> get_fpg(l.household_size),
     marginal_tax_rate |-> marginal_rate(l.total_income)]

cliff_body_head_income(params_copy) ==
    benefits_body([params_copy EXCEPT !.spouse_income = 0])

\* calculate_cliff, lines 182-207: params_copy already carries test_income
cliff_body(params_copy) ==
    LET income == params_copy.employment_income
        spouse_income == params_copy.spouse_income
        total_income == income + spouse_income
        household_size == 1 + (IF params_copy.marital_status = "married" THEN 1 ELSE 0)
                            + params_copy.num_children
        num_children == params_copy.num_children
        snap == calculate_snap(total_income, household_size)
        wic == calculate_wic(total_income, household_size, Min(num_children, 2))
        medicaid == calculate_medicaid_value(total_income, household_size, num_children)
        chip == 0
        ptc == ptc_if_no_medicaid(medicaid, total_income, household_size)
        eitc == calculate_eitc(total_income, num_children,
                               params_copy.marital_status = "married")
        ctc == calculate_ctc(num_children)
        cdcc == IF num_children > 0 THEN Min(num_children * 1000, 3000) * Scale ELSE 0
        total_benefits == snap + wic + medicaid + chip + ptc + eitc + ctc + cdcc
        net_income == total_income * Scale + total_benefits
    IN  [params_copy |-> params_copy, total_income |-> total_income,
         household_size |-> household_size,
         snap |-> snap, wic |-> wic, medicaid |-> medicaid, chip |-> chip,
         ptc |-> ptc, eitc |-> eitc, ctc |-> ctc, cdcc |-> cdcc,
         total_benefits |-> total_benefits, net_income |-> net_income]

cliff_record(l) ==
    [income |-> l.params_copy.employment_income,
     snap |-> l.snap, wic |-> l.wic, medicaid |-> l.medicaid, chip |-> l.chip,
     premium_tax_credit |-> l.ptc, eitc |-> l.eitc, ctc |-> l.ctc,
     cdcc |-> l.cdcc, housing_subsidy |-> 0,
     total_benefits |-> l.total_benefits, net_income |-> l.net_income]

\* calculate_marginal_child, lines 241-264: params_copy carries test_income
\* and num_kids
marginal_body(params_copy) ==
    LET income == params_copy.employment_income
        kids == params_copy.num_children
        spouse_income == params_copy.spouse_income
        total_income == income + spouse_income
        household_size == 1 + (IF params_copy.marital_status = "married" THEN 1 ELSE 0)
                            + kids
        snap == calculate_snap(total_income, household_size)
        wic == calculate_wic(total_income, household_size, Min(kids, 2))
        medicaid == calculate_medicaid_value(total_income, household_size, kids)
        chip == 0
        ptc == ptc_if_no_medicaid(medicaid, total_income, household_size)
        eitc == calculate_eitc(total_income, kids,
                               params_copy.marital_status = "married")
        ctc == calculate_ctc(kids)
        cdcc == IF kids > 0 THEN Min(kids * 1000, 3000) * Scale ELSE 0
        total_benefits == snap + wic + medicaid + chip + ptc + eitc + ctc + cdcc
        net_income == total_income * Scale + total_benefits
    IN  [params_copy |-> params_copy, total_income |-> total_income,
         household_size |-> household_size,
         snap |-> snap, wic |-> wic, medicaid |-> medicaid, chip |-> chip,
         ptc |-> ptc, eitc |-> eitc, ctc |-> ctc, cdcc |-> cdcc,
         total_benefits |-> total_benefits, net_income |-> net_income]

\* max_children = 4  # Always show 4 children
mock_max_children == 4

\* the stop of range(income_min, income_max + 1, income_step)
sweep_stop_exclusive(income_max) == income_max

sweep_stop(income_max) == income_max + 1

\* if prev_net_income is not None and num_kids > 0
emits_record_after_first(prev, kids) == prev # None /\ kids > 1

emits_record(prev, kids) == prev # None /\ kids > 0

\* prev_net_income = net_income
next_prev_keep_baseline(prev, net_income) ==
    IF prev = None THEN Some(net_income) ELSE prev

next_prev(prev, net_income) == Some(net_income)

SweepRequestIncomes == {12345}
SweepRequestKids == {2}

\* range(start, stop, step) raises ValueError for step = 0
range_raises(step) == step = 0
RangeError == "range() arg 3 must not be zero"

\* What the client gets when a view function lets an exception escape: the
\* framework's own 500 page, which is HTML and carries no JSON body.
flask_unhandled == [status |-> 500, json |-> None]

\* return jsonify({"error": str(e)}), 500
error_response(text) == [status |-> 500, json |-> Some([error |-> text])]

(***************************************************************************)
(* POST /api/calculate (src/api/app_mock.py)                               *)
(***************************************************************************)
calculate_benefits(p) ==
    /\ params' = p
    /\ locals' = benefits_body(p)
    /\ response' = benefits_response(locals')
    /\ pc' = "calculate_done"
    /\ UNCHANGED <<it, test_income, num_kids, prev_net_income, results>>
    /\ UNCHANGED <<oracle, batchVars>>
    /\ UNCHANGED appVars

Calculate ==
    /\ pc = "idle"
    /\ \E hh \in Households(IncomePoints, ChildCounts) :
         calculate_benefits(Request(hh, NoGrid))

OpenCalculate ==
    /\ pc = "idle"
    /\ \E hh \in OpenHouseholds : calculate_benefits(Request(hh, NoGrid))

(***************************************************************************)
(* POST /api/calculate_cliff (src/api/app_mock.py)                         *)
(***************************************************************************)
\* lines 182-183: params_copy = params.copy(); params_copy['employment_income'] = test_income
cliff_params_copy(p, income) == [p EXCEPT !.employment_income = income]

\* lines 173-181, up to the call of range(); nothing catches its ValueError
calculate_cliff(p) ==
    /\ params' = p
    /\ results' = <<>>
    /\ IF range_raises(p.income_step)
       THEN /\ pc' = "cliff_raised"
            /\ response' = flask_unhandled
            /\ UNCHANGED it
       ELSE /\ pc' = "cliff_loop"
            /\ it' = p.income_min
            /\ UNCHANGED response
    /\ UNCHANGED <<test_income, num_kids, prev_net_income, locals>>
    /\ UNCHANGED <<oracle, batchVars>>
    /\ UNCHANGED appVars

\* A sweep in steps of 1000 across the adult Medicaid threshold.
ThresholdGrid == [income_min |-> 20000, income_max |-> 21000, income_step |-> 1000,
                  max_children |-> None]

CliffRequests ==
    {Request(hh, g) : hh \in Households(SweepRequestIncomes, ChildCounts),
                      g \in Grids \cup {ThresholdGrid}}

CliffStart ==
    /\ pc = "idle"
    /\ \E p \in CliffRequests : calculate_cliff(p)

OpenCliffStart ==
    /\ pc = "idle"
    /\ \E hh \in OpenHouseholds, g \in OpenGrids : calculate_cliff(Request(hh, g))

\* one iteration of: for test_income in range(income_min, income_max + 1, income_step)
CliffIter ==
    /\ pc = "cliff_loop"
    /\ it < sweep_stop(params.income_max)
    /\ test_income' = it
    /\ it' = it + params.income_step
    /\ locals' = cliff_body(cliff_params_copy(params, it))
    /\ results' = Append(results, cliff_record(locals'))
    /\ UNCHANGED <<pc, params, num_kids, prev_net_income, response>>
    /\ UNCHANGED <<oracle, batchVars>>
    /\ UNCHANGED appVars

CliffReturn ==
    /\ pc = "cliff_loop"
    /\ ~(it < sweep_stop(params.income_max))
    /\ response' = results
    /\ pc' = "cliff_done"
    /\ UNCHANGED <<params, it, test_income, num_kids, prev_net_income, locals, results>>
    /\ UNCHANGED <<oracle, batchVars>>
    /\ UNCHANGED appVars

(***************************************************************************)
(* POST /api/marginal_child (src/api/app_mock.py)                          *)
(***************************************************************************)
marginal_record(l, prev) ==
    [income |-> l.params_copy.employment_income,
     num_children |-> l.params_copy.num_children,
     marginal_benefit |-> l.net_income - prev,
     net_income |-> l.net_income]

marginal_params_copy_drops_spouse(p, income, kids) ==
    [p EXCEPT !.employment_income = income, !.num_children = kids, !.spouse_income = 0]

\* lines 240-242: the copy with employment_income and num_children replaced
marginal_params_copy(p, income, kids) ==
    [p EXCEPT !.employment_income = income, !.num_children = kids]

\* lines 228-237, up to the call of range(); nothing catches its ValueError
calculate_marginal_child(p) ==
    /\ params' = p
    /\ results' = <<>>
    /\ IF range_raises(p.income_step)
       THEN /\ pc' = "marginal_raised"
            /\ response' = flask_unhandled
            /\ UNCHANGED it
       ELSE /\ pc' = "marginal_outer"
            /\ it' = p.income_min
            /\ UNCHANGED response
    /\ UNCHANGED <<test_income, num_kids, prev_net_income, locals>>
    /\ UNCHANGED <<oracle, batchVars>>
    /\ UNCHANGED appVars

\* The default grid is requested without spouse income.
MarginalRequests ==
    {Request(hh, g) : hh \in Households(SweepRequestIncomes, SweepRequestKids),
                      g \in MarginalGrids}
    \cup {Request(hh, DefaultGrid) :
            hh \in {h \in Households(SweepRequestIncomes, SweepRequestKids) :
                       h.spouse_income = 0}}

MarginalStart ==
    /\ pc = "idle"
    /\ \E p \in MarginalRequests : calculate_marginal_child(p)

OpenMarginalStart ==
    /\ pc = "idle"
    /\ \E hh \in OpenHouseholds, g \in OpenGrids :
         calculate_marginal_child(Request(hh, g))

\* the header of: for test_income in range(income_min, income_max + 1, income_step)
MarginalOuter ==
    /\ pc = "marginal_outer"
    /\ IF it < sweep_stop(params.income_max)
       THEN /\ test_income' = it
            /\ it' = it + params.income_step
            /\ prev_net_income' = None
            /\ num_kids' = 0
            /\ pc' = "marginal_inner"
            /\ UNCHANGED response
       ELSE /\ response' = results
            /\ pc' = "marginal_done"
            /\ UNCHANGED <<it, test_income, num_kids, prev_net_income>>
    /\ UNCHANGED <<params, locals, results>>
    /\ UNCHANGED <<oracle, batchVars>>
    /\ UNCHANGED appVars

\* one iteration of: for num_kids in range(max_children + 1)
MarginalInner ==
    /\ pc = "marginal_inner"
    /\ IF num_kids < mock_max_children + 1
       THEN /\ locals' = marginal_body(marginal_params_copy(params, test_income, num_kids))
            /\ results' = IF emits_record(prev_net_income, num_kids)
                          THEN Append(results,
                                      marginal_record(locals', prev_net_income[1]))
                          ELSE results
            /\ prev_net_income' = next_prev(prev_net_income, locals'.net_income)
            /\ num_kids' = num_kids + 1
            /\ UNCHANGED pc
       ELSE /\ pc' = "marginal_outer"
            /\ UNCHANGED <<locals, results, prev_net_income, num_kids>>
    /\ UNCHANGED <<params, it, test_income, response>>
    /\ UNCHANGED <<oracle, batchVars>>
    /\ UNCHANGED appVars

(***************************************************************************)
(* The PolicyEngine simulator, an external library.  The repository hands  *)
(* it a situation and reads household_net_income back.  A situation is     *)
(* kept as the list of people (name, age, employment income or None when   *)
(* the key is absent), the member lists of the groups, the household's     *)
(* state and the optional income axis.                                     *)
(***************************************************************************)
INCOME_MIN == 0
INCOME_MAX == 200000
INCOME_STEP == 2500
MAX_CHILDREN == 4
DEFAULT_ADULT_AGE == 30
DEFAULT_CHILD_AGE == 10

Person(name, age, employment_income) ==
    [name |-> name, age |-> age, employment_income |-> employment_income]

child_name_underscore == <<"child_1", "child_2", "child_3", "child_4", "child_5", "child_6">>
child_name_plain == <<"child1", "child2", "child3", "child4", "child5", "child6">>

\* src/calculations.py: create_household_situation, after its two range checks
household_situation(num_children, marital_status, state_code, spouse_income) ==
    LET adult == <<Person("adult", DEFAULT_ADULT_AGE, None)>>
        spouse == IF marital_status = "married"
                  THEN <<Person("spouse", DEFAULT_ADULT_AGE, Some(spouse_income))>>
                  ELSE <<>>
        child(k) == Person(child_name_underscore[k], DEFAULT_CHILD_AGE, None)
        people == adult \o spouse \o [k \in 1..num_children |-> child(k)]
        members == <<"adult">>
                   \o (IF marital_status = "married" THEN <<"spouse">> ELSE <<>>)
                   \o [k \in 1..num_children |-> child_name_underscore[k]]
    IN  [people |-> people,
         families |-> members,
         households |-> [members |-> members, state |-> state_code],
         tax_units |-> members,
         spm_units |-> members,
         axes |-> None]

\* src/calculations.py: create_household_situation.  raised is None or the
\* ValueError raised; value is None or the situation returned.
create_household_situation_no_upper(num_children, marital_status, state_code, spouse_income) ==
    IF num_children < 0
    THEN [raised |-> Some("Number of children cannot be negative"), value |-> None]
    ELSE [raised |-> None,
          value |-> Some(household_situation(num_children, marital_status,
                                             state_code, spouse_income))]

create_household_situation(num_children, marital_status, state_code, spouse_income) ==
    IF num_children < 0
    THEN [raised |-> Some("Number of children cannot be negative"), value |-> None]
    ELSE IF num_children > MAX_CHILDREN
    THEN [raised |-> Some("Number of children cannot exceed MAX_CHILDREN"),
          value |-> None]
    ELSE [raised |-> None,
          value |-> Some(household_situation(num_children, marital_status,
                                             state_code, spouse_income))]

\* src/api/app.py: create_situation, for a request without the optional
\* age, pregnancy, housing and childcare fields
create_situation(p) ==
    LET married == p.marital_status = "married"
        parent1 == <<Person("parent1", 30, Some(p.employment_income))>>
        parent2 == IF married THEN <<Person("parent2", 30, Some(p.spouse_income))>>
                   ELSE <<>>
        child(k) == Person(child_name_plain[k], 5, None)
        people == parent1 \o parent2 \o [k \in 1..p.num_children |-> child(k)]
        members == <<"parent1">>
                   \o (IF married THEN <<"parent2">> ELSE <<>>)
                   \o [k \in 1..p.num_children |-> child_name_plain[k]]
    IN  [people |-> people,
         families |-> members,
         households |-> [members |-> members, state |-> p.state],
         tax_units |-> members,
         spm_units |-> members,
         axes |-> None]

\* range(lo, hi, step) for step > 0
RangeLen(lo, hi, step) == IF hi > lo THEN (hi - lo + step - 1) \div step ELSE 0
RangeSeq(lo, hi, step) == [k \in 1..RangeLen(lo, hi, step) |-> lo + (k - 1) * step]

income_points == RangeSeq(INCOME_MIN, INCOME_MAX + 1, INCOME_STEP)

\* situation["axes"] = [[{"name": "employment_income", "count", "min", "max"}]]
with_axes(situation, count, lo, hi) ==
    [situation EXCEPT !.axes = Some([count |-> count, min |-> lo, max |-> hi])]

AxisValue_without_endpoint(axis, k) ==
    axis.min + (k * (axis.max - axis.min)) \div axis.count

\* The k-th (from 0) of count evenly spaced values from min to max.
AxisValue(axis, k) ==
    IF axis.count = 1 THEN axis.min
    ELSE axis.min + (k * (axis.max - axis.min)) \div (axis.count - 1)

\* income_min, income_max, income_step of the batched strategy
ShippedGrid == [min |-> INCOME_MIN, max |-> INCOME_MAX, step |-> INCOME_STEP]

\* The same two computations for other values of the three grid constants.
AxisGrids ==
    {g \in [min : {0, 20000}, max : {20000, 45000, 50000, 200000},
            step : {2500, 10000}] : g.min <= g.max}

\* income_points[k] (k from 0) and the earnings the simulator evaluates at
\* axis point k, for the grid g
grid_label(g, k) == RangeSeq(g.min, g.max + 1, g.step)[k + 1]

grid_axis(g) ==
    [count |-> RangeLen(g.min, g.max + 1, g.step), min |-> g.min, max |-> g.max]

\* enumerate(income_points) against the axis: one index at a time
AxisPoint ==
    /\ pc \in {"idle", "axis_point"}
    /\ i < RangeLen(grid.min, grid.max + 1, grid.step)
    /\ test_income' = grid_label(grid, i)
    /\ it' = AxisValue(grid_axis(grid), i)
    /\ i' = i + 1
    /\ pc' = "axis_point"
    /\ UNCHANGED <<params, num_kids, prev_net_income, locals, results, response,
                   args, oracle, all_net_incomes, cache, grid,
                   session_state, widgets, df, computed_from>>

SimCount(situation) ==
    IF situation.axes = None THEN 1 ELSE situation.axes[1].count

\* The household the simulator evaluates at point k (from 0): the axis sets
\* the employment income of the first person; an absent income is 0.
SimHousehold(situation, k) ==
    LET income_of(j) ==
            IF j = 1 /\ situation.axes # None
            THEN AxisValue(situation.axes[1], k)
            ELSE IF situation.people[j].employment_income = None THEN 0
                 ELSE situation.people[j].employment_income[1]
    IN  [ages   |-> [j \in 1..Len(situation.people) |-> situation.people[j].age],
         income |-> [j \in 1..Len(situation.people) |-> income_of(j)],
         members |-> Len(situation.households.members),
         state  |-> situation.households.state]

\* What the repository can rely on: the simulator is a function of the
\* household and the variable asked for.  Which function is the library's
\* business; an oracle stands for it (whole dollars).
SimOracles ==
    [per_person : {1500}, young_child : {0, 400}, health : {2500}]

SumSeq(q) ==
    LET RECURSIVE go(_)
        go(k) == IF k = 0 THEN 0 ELSE q[k] + go(k - 1)
    IN  go(Len(q))

SimValue(h, variable, o) ==
    SumSeq(h.income)
    + o.per_person * h.members
    + o.young_child * Cardinality({j \in 1..Len(h.ages) : h.ages[j] < 6})
    + (IF variable = "household_net_income_including_health_benefits"
       THEN o.health * Len(h.ages) ELSE 0)

\* sim.calculate(variable, 2024): one value per axis point
SimCalculate(situation, variable, o) ==
    [k \in 1..SimCount(situation) |->
        SimValue(SimHousehold(situation, k - 1), variable, o)]

(***************************************************************************)
(* POST /api/marginal_child backed by the simulator (src/api/app.py).  The *)
(* whole handler runs inside try/except Exception.                         *)
(***************************************************************************)
pe_max_children(p) == IF p.max_children = None THEN 5 ELSE p.max_children[1]

pe_point(params_copy, o) ==
    [params_copy |-> params_copy,
     net_income |-> SimCalculate(create_situation(params_copy),
                                 "household_net_income", o)[1]]

\* lines 215-225, up to the call of range(), whose ValueError is caught
pe_calculate_marginal_child(p) ==
    /\ params' = p
    /\ \E o \in SimOracles : oracle' = o
    /\ results' = <<>>
    /\ IF range_raises(p.income_step)
       THEN /\ pc' = "pe_marginal_error"
            /\ response' = error_response(RangeError)
            /\ UNCHANGED it
       ELSE /\ pc' = "pe_marginal_outer"
            /\ it' = p.income_min
            /\ UNCHANGED response
    /\ UNCHANGED <<test_income, num_kids, prev_net_income, locals, batchVars>>
    /\ UNCHANGED appVars

PeMarginalStart ==
    /\ pc = "idle"
    /\ \E hh \in Households(SweepRequestIncomes, SweepRequestKids), g \in PeGrids :
         pe_calculate_marginal_child(Request(hh, g))

OpenPeMarginalStart ==
    /\ pc = "idle"
    /\ \E hh \in OpenHouseholds, g \in OpenGrids :
         pe_calculate_marginal_child(Request(hh, g))

\* The text of an exception the simulator raises instead of answering.
SimulatorErrors == {"simulation failed"}

\* Simulation(...) or sim.calculate(...) raises in an inner iteration: the
\* except clause answers, and the records built so far are dropped.
PeMarginalRaise ==
    /\ pc = "pe_marginal_inner"
    /\ num_kids < pe_max_children(params) + 1
    /\ \E e \in SimulatorErrors : response' = error_response(e)
    /\ pc' = "pe_marginal_error"
    /\ UNCHANGED <<params, it, test_income, num_kids, prev_net_income, locals,
                   results, oracle, batchVars>>
    /\ UNCHANGED appVars

PeMarginalOuter ==
    /\ pc = "pe_marginal_outer"
    /\ IF it < params.income_max + 1
       THEN /\ test_income' = it
            /\ it' = it + params.income_step
            /\ prev_net_income' = None
            /\ num_kids' = 0
            /\ pc' = "pe_marginal_inner"
            /\ UNCHANGED response
       ELSE /\ response' = results
            /\ pc' = "pe_marginal_done"
            /\ UNCHANGED <<it, test_income, num_kids, prev_net_income>>
    /\ UNCHANGED <<params, locals, results, oracle, batchVars>>
    /\ UNCHANGED appVars

PeMarginalInner ==
    /\ pc = "pe_marginal_inner"
    /\ IF num_kids < pe_max_children(params) + 1
       THEN /\ locals' = pe_point([params EXCEPT !.employment_income = test_income,
                                                 !.num_children = num_kids], oracle)
            /\ results' = IF prev_net_income # None /\ num_kids > 0
                          THEN Append(results,
                                      marginal_record(locals', prev_net_income[1]))
                          ELSE results
            /\ prev_net_income' = Some(locals'.net_income)
            /\ num_kids' = num_kids + 1
            /\ UNCHANGED pc
       ELSE /\ pc' = "pe_marginal_outer"
            /\ UNCHANGED <<locals, results, prev_net_income, num_kids>>
    /\ UNCHANGED <<params, it, test_income, response, oracle, batchVars>>
    /\ UNCHANGED appVars

(***************************************************************************)
(* The remote-API backend (src/api/app_simple.py): every grid point is one *)
(* POST to the PolicyEngine web API, which answers 200 with the result or  *)
(* another status.                                                         *)
(***************************************************************************)
create_household_json(p) ==
    LET married == p.marital_status = "married"
        parent1 == <<Person("parent1", 30, Some(p.employment_income))>>
        parent2 == IF married THEN <<Person("parent2", 30, Some(p.spouse_income))>>
                   ELSE <<>>
        child(k) == Person(child_name_plain[k], 5, None)
        members == <<"parent1">>
                   \o (IF married THEN <<"parent2">> ELSE <<>>)
                   \o [k \in 1..p.num_children |-> child_name_plain[k]]
    IN  [people |-> parent1 \o parent2 \o [k \in 1..p.num_children |-> child(k)],
         families |-> members,
         households |-> [members |-> members, state |-> p.state],
         tax_units |-> members,
         spm_units |-> members,
         axes |-> None]

\* result.get("household_net_income", {}).get("2024", 0) of a 200 answer
remote_point(params_copy, o) ==
    [params_copy |-> params_copy,
     net_income |-> SimCalculate(create_household_json(params_copy),
                                 "household_net_income", o)[1]]

remote_max_children(p) == IF p.max_children = None THEN 5 ELSE p.max_children[1]

RemoteGrids ==
    [income_min : {0}, income_max : {10000}, income_step : {5000},
     max_children : {Some(2), Some(3)}]

RemoteRequests ==
    {Request(hh, g) : hh \in Households(SweepRequestIncomes, SweepRequestKids),
                      g \in RemoteGrids}

\* lines 143-152, up to the call of range(), whose ValueError is caught
remote_calculate_cliff(p) ==
    /\ params' = p
    /\ \E o \in SimOracles : oracle' = o
    /\ results' = <<>>
    /\ IF range_raises(p.income_step)
       THEN /\ pc' = "remote_cliff_error"
            /\ response' = error_response(RangeError)
            /\ UNCHANGED it
       ELSE /\ pc' = "remote_cliff_loop"
            /\ it' = p.income_min
            /\ UNCHANGED response
    /\ UNCHANGED <<test_income, num_kids, prev_net_income, locals, batchVars>>
    /\ UNCHANGED appVars

RemoteCliffStart ==
    /\ pc = "idle"
    /\ \E p \in RemoteRequests : remote_calculate_cliff(p)

\* the object appended for one income (the benefit fields are read from the
\* same answer as net_income)
remote_cliff_record(l) ==
    [income |-> l.params_copy.employment_income, net_income |-> l.net_income]

\* lines 163-164: if response.status_code != 200: continue
remote_cliff_after_failure(res) == res

\* one iteration of: for income in range(income_min, income_max + 1, income_step)
RemoteCliffIter ==
    /\ pc = "remote_cliff_loop"
    /\ it < params.income_max + 1
    /\ test_income' = it
    /\ it' = it + params.income_step
    /\ \E status_ok \in BOOLEAN :
         IF ~status_ok
         THEN /\ results' = remote_cliff_after_failure(results)
              /\ UNCHANGED locals
         ELSE /\ locals' = remote_point(cliff_params_copy(params, it), oracle)
              /\ results' = Append(results, remote_cliff_record(locals'))
    /\ UNCHANGED <<pc, params, num_kids, prev_net_income, response, oracle, batchVars>>
    /\ UNCHANGED appVars

RemoteCliffReturn ==
    /\ pc = "remote_cliff_loop"
    /\ ~(it < params.income_max + 1)
    /\ response' = results
    /\ pc' = "remote_cliff_done"
    /\ UNCHANGED <<params, it, test_income, num_kids, prev_net_income, locals,
                   results, oracle, batchVars>>
    /\ UNCHANGED appVars

\* lines 201-211, up to the call of range(), whose ValueError is caught
remote_calculate_marginal_child(p) ==
    /\ params' = p
    /\ \E o \in SimOracles : oracle' = o
    /\ results' = <<>>
    /\ IF range_raises(p.income_step)
       THEN /\ pc' = "remote_marginal_error"
            /\ response' = error_response(RangeError)
            /\ UNCHANGED it
       ELSE /\ pc' = "remote_marginal_outer"
            /\ it' = p.income_min
            /\ UNCHANGED response
    /\ UNCHANGED <<test_income, num_kids, prev_net_income, locals, batchVars>>
    /\ UNCHANGED appVars

RemoteMarginalStart ==
    /\ pc = "idle"
    /\ \E p \in RemoteRequests : remote_calculate_marginal_child(p)

RemoteMarginalOuter ==
    /\ pc = "remote_marginal_outer"
    /\ IF it < params.income_max + 1
       THEN /\ test_income' = it
            /\ it' = it + params.income_step
            /\ prev_net_income' = None
            /\ num_kids' = 0
            /\ pc' = "remote_marginal_inner"
            /\ UNCHANGED response
       ELSE /\ response' = results
            /\ pc' = "remote_marginal_done"
            /\ UNCHANGED <<it, test_income, num_kids, prev_net_income>>
    /\ UNCHANGED <<params, locals, results, oracle, batchVars>>
    /\ UNCHANGED appVars

\* one iteration of: for num_children in range(max_children + 1); a non-200
\* answer takes the continue of lines 226-227, past line 242
RemoteMarginalInner ==
    /\ pc = "remote_marginal_inner"
    /\ IF num_kids < remote_max_children(params) + 1
       THEN /\ \E status_ok \in BOOLEAN :
                 IF ~status_ok
                 THEN UNCHANGED <<locals, results, prev_net_income>>
                 ELSE /\ locals' = remote_point(
                                      marginal_params_copy(params, test_income, num_kids),
                                      oracle)
                      /\ results' = IF prev_net_income # None /\ num_kids > 0
                                    THEN Append(results,
                                                marginal_record(locals', prev_net_income[1]))
                                    ELSE results
                      /\ prev_net_income' = Some(locals'.net_income)
            /\ num_kids' = num_kids + 1
            /\ UNCHANGED pc
       ELSE /\ pc' = "remote_marginal_outer"
            /\ UNCHANGED <<locals, results, prev_net_income, num_kids>>
    /\ UNCHANGED <<params, it, test_income, response, oracle, batchVars>>
    /\ UNCHANGED appVars

(***************************************************************************)
(* calculate_marginal_child_benefits (src/calculations.py): the batched    *)
(* strategy, one simulation per child count over the whole income axis.    *)
(***************************************************************************)
US_STATES ==
    {"AL", "AK", "AZ", "AR", "CA", "CO", "CT", "DE", "DC", "FL",
     "GA", "HI", "ID", "IL", "IN", "IA", "KS", "KY", "LA", "ME",
     "MD", "MA", "MI", "MN", "MS", "MO", "MT", "NE", "NV", "NH",
     "NJ", "NM", "NY", "NC", "ND", "OH", "OK", "OR", "PA", "RI",
     "SC", "SD", "TN", "TX", "UT", "VT", "VA", "WA", "WV", "WI", "WY"}

\* "ok", or the ValueError raised
validate_inputs_no_spouse_check(marital_status, state_code, spouse_income, include_health_benefits) ==
    IF marital_status \notin {"single", "married"} THEN "Invalid marital status"
    ELSE IF state_code \notin US_STATES THEN "Invalid state code"
    ELSE IF include_health_benefits \notin BOOLEAN
         THEN "include_health_benefits must be boolean"
    ELSE "ok"

validate_inputs(marital_status, state_code, spouse_income, include_health_benefits) ==
    IF marital_status \notin {"single", "married"} THEN "Invalid marital status"
    ELSE IF state_code \notin US_STATES THEN "Invalid state code"
    ELSE IF spouse_income < 0 THEN "Spouse income cannot be negative"
    ELSE IF include_health_benefits \notin BOOLEAN
         THEN "include_health_benefits must be boolean"
    ELSE "ok"

BatchArgs ==
    [marital_status : {"single", "married", "divorced"},
     state_code : {"TX", "ZZ"},
     spouse_income : {-1, 0, 30000},
     include_health_benefits : BOOLEAN]

NoArgs == [marital_status |-> "single", state_code |-> "TX", spouse_income |-> 0,
           include_health_benefits |-> FALSE]

net_income_variable(include_health_benefits) ==
    IF include_health_benefits
    THEN "household_net_income_including_health_benefits"
    ELSE "household_net_income"

\* lines 184-219: the situation with its axis, simulated
batch_net_incomes(kids, a, o) ==
    LET situation ==
            with_axes(household_situation(kids, a.marital_status, a.state_code,
                                          a.spouse_income),
                      Len(income_points), INCOME_MIN, INCOME_MAX)
    IN  SimCalculate(situation, net_income_variable(a.include_health_benefits), o)

\* lines 238-249
batch_record_reversed(kids, k, nets) ==
    [income |-> income_points[Len(income_points) - k],
     num_children |-> kids,
     marginal_benefit |-> nets[kids + 1][k + 1] - nets[kids][k + 1],
     net_income |-> nets[kids + 1][k + 1]]

batch_record(kids, k, nets) ==
    [income |-> income_points[k + 1],
     num_children |-> kids,
     marginal_benefit |-> nets[kids + 1][k + 1] - nets[kids][k + 1],
     net_income |-> nets[kids + 1][k + 1]]

\* @st.cache_data: the key of a call is its full argument tuple
cache_key_no_spouse_income(a) == [a EXCEPT !.spouse_income = 0]

cache_key(a) == a

\* the stored values, with the return value of the call with arguments a added
cache_store(c, a, value) ==
    [k \in DOMAIN c \cup {cache_key(a)} |-> IF k = cache_key(a) THEN value ELSE c[k]]

\* the body entered with arguments a (lines 155-172): validation first
batch_enter(a) ==
    /\ args' = a
    /\ IF validate_inputs(a.marital_status, a.state_code,
                          a.spouse_income, a.include_health_benefits) # "ok"
       THEN /\ pc' = "batch_raised"
            /\ UNCHANGED <<num_kids, results, all_net_incomes>>
       ELSE /\ pc' = "batch_sim"
            /\ num_kids' = 0
            /\ results' = <<>>
            /\ all_net_incomes' = <<>>
    /\ UNCHANGED <<apiVars, response, i>>

\* the first call of a session: nothing is stored yet
BatchStart ==
    /\ pc = "idle"
    /\ \E a \in BatchArgs : batch_enter(a)
    /\ \E o \in SimOracles : oracle' = o
    /\ UNCHANGED appVars

CacheArgs ==
    [marital_status : {"married"}, state_code : {"TX"},
     spouse_income : {0 - 1, 0, 30000}, include_health_benefits : BOOLEAN]

\* a call of the memoised function once the earlier calls have ended: a
\* stored value is returned without entering the body
CachedCall ==
    /\ pc \in {"idle", "batch_done", "batch_raised"}
    /\ \E a \in CacheArgs :
         IF cache_key(a) \in DOMAIN cache
         THEN /\ args' = a
              /\ response' = cache[cache_key(a)]
              /\ pc' = "batch_done"
              /\ results' = <<>>
              /\ all_net_incomes' = <<>>
              /\ UNCHANGED <<apiVars, num_kids, i>>
         ELSE batch_enter(a)
    /\ UNCHANGED <<oracle, cache, uiVars>>

\* one iteration of: for num_kids in range(MAX_CHILDREN + 1)
BatchSim ==
    /\ pc = "batch_sim"
    /\ IF num_kids < MAX_CHILDREN + 1
       THEN /\ all_net_incomes' =
                 Append(all_net_incomes, batch_net_incomes(num_kids, args, oracle))
            /\ num_kids' = num_kids + 1
            /\ UNCHANGED <<pc, i>>
       ELSE /\ pc' = "batch_emit"
            /\ num_kids' = 1
            /\ i' = 0
            /\ UNCHANGED all_net_incomes
    /\ UNCHANGED <<apiVars, args, oracle, results, response>>
    /\ UNCHANGED appVars

\* for num_kids in range(1, MAX_CHILDREN + 1): for i, income in enumerate(income_points)
BatchEmit ==
    /\ pc = "batch_emit"
    /\ num_kids < MAX_CHILDREN + 1
    /\ IF i < Len(income_points)
       THEN /\ results' = Append(results, batch_record(num_kids, i, all_net_incomes))
            /\ i' = i + 1
            /\ UNCHANGED num_kids
       ELSE /\ num_kids' = num_kids + 1
            /\ i' = 0
            /\ UNCHANGED results
    /\ UNCHANGED <<pc, apiVars, args, oracle, all_net_incomes, response>>
    /\ UNCHANGED appVars

BatchReturn ==
    /\ pc = "batch_emit"
    /\ ~(num_kids < MAX_CHILDREN + 1)
    /\ response' = results
    /\ cache' = cache_store(cache, args, results)
    /\ pc' = "batch_done"
    /\ UNCHANGED <<apiVars, args, oracle, all_net_incomes, results, num_kids, i, uiVars>>

(***************************************************************************)
(* The Streamlit app (src/app.py): main() runs from top to bottom on every *)
(* rerun; st.session_state outlives the rerun, the widgets' values are     *)
(* those of the current rerun.                                             *)
(***************************************************************************)
\* what the widgets return in the first run of a session
DefaultWidgets ==
    [marital_status |-> "single", state_code |-> "TX", spouse_income |-> 0,
     include_health_benefits |-> TRUE, calculate_button |-> FALSE]

\* spouse_income stays 0 unless married; the button is TRUE only in the
\* rerun its click started
WidgetValues ==
    {w \in [marital_status : {"single", "married"}, state_code : {"TX"},
            spouse_income : {0, 10000, 20000, 30000}, include_health_benefits : BOOLEAN,
            calculate_button : BOOLEAN] :
        w.marital_status = "single" => w.spouse_income = 0}

\* the four arguments main() passes on
call_args(w) ==
    [marital_status |-> w.marital_status, state_code |-> w.state_code,
     spouse_income |-> w.spouse_income,
     include_health_benefits |-> w.include_health_benefits]

\* src/app.py's calculate_marginal_child_benefits: the same batched sweep
app_marginal_child_benefits(a, o) ==
    LET nets == [n \in 1..(MAX_CHILDREN + 1) |-> batch_net_incomes(n - 1, a, o)]
        L == Len(income_points)
    IN  [j \in 1..(MAX_CHILDREN * L) |->
            batch_record(((j - 1) \div L) + 1, (j - 1) % L, nets)]

needs_compute_first_only(button, ss) == ss.df = None

\* line 233: if calculate_button or 'df' not in st.session_state
needs_compute(button, ss) == button \/ ss.df = None

\* one run of main() with the widget values w
main(w) ==
    /\ widgets' = w
    /\ IF needs_compute(w.calculate_button, session_state)
       THEN /\ df' = Some(app_marginal_child_benefits(call_args(w), oracle))
            /\ session_state' = [session_state EXCEPT !.df = df']
            /\ computed_from' = Some(call_args(w))
       ELSE /\ df' = session_state.df
            /\ UNCHANGED <<session_state, computed_from>>
    /\ pc' = "rendered"
    /\ UNCHANGED <<apiVars, num_kids, results, response, args, oracle,
                   all_net_incomes, i, cache, grid>>

FirstRun ==
    /\ pc = "idle"
    /\ main(DefaultWidgets)

\* a widget was changed or the button clicked: the script runs again
Rerun ==
    /\ pc = "rendered"
    /\ \E w \in WidgetValues : main(w)

(***************************************************************************)
(* create_household_situation (src/calculations.py) called on its own: a   *)
(* module-level function any importer can call with any child count.       *)
(***************************************************************************)
SituationChildCounts == (0 - 2)..(MAX_CHILDREN + 2)

CreateHouseholdSituation ==
    /\ pc = "idle"
    /\ \E a \in BatchArgs, n \in SituationChildCounts :
         /\ ~a.include_health_benefits
         /\ args' = a
         /\ num_kids' = n
         /\ response' = create_household_situation(n, a.marital_status,
                                                   a.state_code, a.spouse_income)
    /\ pc' = "situation_done"
    /\ UNCHANGED <<apiVars, results, oracle, all_net_incomes, i>>
    /\ UNCHANGED appVars

Init ==
    /\ pc = "idle"
    /\ params = NoParams
    /\ it = 0
    /\ test_income = 0
    /\ num_kids = 0
    /\ prev_net_income = None
    /\ locals = NoLocals
    /\ results = <<>>
    /\ response = <<>>
    /\ args = NoArgs
    /\ oracle = CHOOSE o \in SimOracles : TRUE
    /\ all_net_incomes = <<>>
    /\ i = 0
    /\ cache = <<>>
    /\ grid = ShippedGrid
    /\ session_state = [df |-> None]
    /\ widgets = DefaultWidgets
    /\ df = None
    /\ computed_from = None

Next ==
    \/ Calculate
    \/ CliffStart \/ CliffIter \/ CliffReturn
    \/ MarginalStart \/ MarginalOuter \/ MarginalInner
    \/ PeMarginalStart \/ PeMarginalOuter \/ PeMarginalInner \/ PeMarginalRaise
    \/ BatchStart \/ BatchSim \/ BatchEmit \/ BatchReturn
    \/ CreateHouseholdSituation

Spec == Init /\ [][Next]_vars

\* The HTTP handlers under requests of any client.
OpenNext ==
    \/ OpenCalculate
    \/ OpenCliffStart \/ CliffIter \/ CliffReturn
    \/ OpenMarginalStart \/ MarginalOuter \/ MarginalInner
    \/ OpenPeMarginalStart \/ PeMarginalOuter \/ PeMarginalInner \/ PeMarginalRaise

OpenSpec == Init /\ [][OpenNext]_vars

RemoteNext ==
    \/ RemoteCliffStart
    \/ RemoteCliffIter
    \/ RemoteCliffReturn
    \/ RemoteMarginalStart
    \/ RemoteMarginalOuter
    \/ RemoteMarginalInner

RemoteSpec == Init /\ [][RemoteNext]_vars

\* The labelling of the batched strategy, for any values of its grid constants.
AxisInit ==
    /\ pc = "idle"
    /\ params = NoParams
    /\ it = 0
    /\ test_income = 0
    /\ num_kids = 0
    /\ prev_net_income = None
    /\ locals = NoLocals
    /\ results = <<>>
    /\ response = <<>>
    /\ args = NoArgs
    /\ oracle = CHOOSE o \in SimOracles : TRUE
    /\ all_net_incomes = <<>>
    /\ i = 0
    /\ cache = <<>>
    /\ grid \in AxisGrids
    /\ session_state = [df |-> None]
    /\ widgets = DefaultWidgets
    /\ df = None
    /\ computed_from = None

AxisNext == AxisPoint

AxisSpec == AxisInit /\ [][AxisNext]_vars

UiNext == FirstRun \/ Rerun

UiSpec == Init /\ [][UiNext]_vars

\* A session of calls of the memoised calculate_marginal_child_benefits
\* against one simulator.
CacheInit ==
    /\ pc = "idle"
    /\ params = NoParams
    /\ it = 0
    /\ test_income = 0
    /\ num_kids = 0
    /\ prev_net_income = None
    /\ locals = NoLocals
    /\ results = <<>>
    /\ response = <<>>
    /\ args = NoArgs
    /\ oracle \in SimOracles
    /\ all_net_incomes = <<>>
    /\ i = 0
    /\ cache = <<>>
    /\ grid = ShippedGrid
    /\ session_state = [df |-> None]
    /\ widgets = DefaultWidgets
    /\ df = None
    /\ computed_from = None

CacheNext == CachedCall \/ BatchSim \/ BatchEmit \/ BatchReturn

CacheSpec == CacheInit /\ [][CacheNext]_vars

(***************************************************************************)
(* Properties                                                              *)
(***************************************************************************)
MockMarginalPcs == {"marginal_outer", "marginal_inner", "marginal_done"}
PeMarginalPcs == {"pe_marginal_outer", "pe_marginal_inner", "pe_marginal_done"}
BatchEmitPcs == {"batch_emit", "batch_done"}
MockEvaluated == (pc \in {"calculate_done", "cliff_loop", "cliff_done"}
                  \/ pc \in MockMarginalPcs)
                 /\ locals # NoLocals

At(p, x, n) == [p EXCEPT !.employment_income = x, !.num_children = n]

\* The net income of the batched household with n children when its head
\* earns exactly x.
BatchNetAt(a, o, x, n) ==
    SimCalculate(with_axes(household_situation(n, a.marital_status, a.state_code,
                                               a.spouse_income), 1, x, x),
                 net_income_variable(a.include_health_benefits), o)[1]

IsDifference(r, net(_, _)) ==
    /\ r.num_children >= 1
    /\ r.net_income = net(r.income, r.num_children)
    /\ r.marginal_benefit = net(r.income, r.num_children)
                            - net(r.income, r.num_children - 1)

\* C1: every marginal record for (income x, n children) carries
\* net_income(x, n) - net_income(x, n - 1), both evaluated at the record's own
\* income with the request's other fields; for n = 1 the baseline is the
\* 0-child result at that same income.
C1_MarginalIsDifference ==
    /\ pc \in MockMarginalPcs =>
         LET net(x, n) == marginal_body(At(params, x, n)).net_income
         IN  \A k \in 1..Len(results) : IsDifference(results[k], net)
    /\ pc \in PeMarginalPcs =>
         LET net(x, n) == pe_point(At(params, x, n), oracle).net_income
         IN  \A k \in 1..Len(results) : IsDifference(results[k], net)
    /\ pc \in BatchEmitPcs =>
         LET net(x, n) == BatchNetAt(args, oracle, x, n)
         IN  \A k \in 1..Len(results) : IsDifference(results[k], net)

C1_Witness ==
    /\ pc = "marginal_done"
    /\ Len(results) >= 8
    /\ \E k \in 1..Len(results) :
         /\ results[k].num_children = 1
         /\ results[k].income > params.income_min
         /\ results[k].marginal_benefit > 0
         /\ results[k].marginal_benefit # results[1].marginal_benefit

\* The incomes a grid with step > 0 names: min + k * step, up to max.
ExpectedIncomes(lo, hi, step) ==
    IF hi < lo THEN {} ELSE {lo + k * step : k \in 0..((hi - lo) \div step)}

RecordsPerIncome(res, M, incomes) ==
    /\ \A k \in 1..Len(res) : res[k].num_children \in 1..M /\ res[k].income \in incomes
    /\ \A x \in incomes, n \in 1..M :
         Cardinality({k \in 1..Len(res) : res[k].income = x /\ res[k].num_children = n}) = 1
    /\ Len(res) = M * Cardinality(incomes)

\* C2: no marginal record has num_children = 0; a finished sweep holds, for
\* each grid income, exactly one record for each of 1..M children (M = 4 in
\* the formula engine), so its length is M times the number of grid incomes
\* whatever the marital status, state and spouse income.
C2_RecordsPerIncome ==
    /\ (pc \in MockMarginalPcs \/ pc \in PeMarginalPcs \/ pc \in BatchEmitPcs) =>
         \A k \in 1..Len(results) : results[k].num_children # 0
    /\ pc = "marginal_done" =>
         RecordsPerIncome(response, 4,
             ExpectedIncomes(params.income_min, params.income_max, params.income_step))
    /\ pc = "pe_marginal_done" =>
         RecordsPerIncome(response, pe_max_children(params),
             ExpectedIncomes(params.income_min, params.income_max, params.income_step))
    /\ pc = "batch_done" =>
         RecordsPerIncome(response, MAX_CHILDREN,
             ExpectedIncomes(INCOME_MIN, INCOME_MAX, INCOME_STEP))

C2_Witness ==
    /\ pc = "marginal_done"
    /\ params.marital_status = "married"
    /\ params.spouse_income > 0
    /\ params.state = "CA"
    /\ Len(response) = 4 * 6

\* The incomes a finished sweep evaluated, in the order of evaluation.
IsFirstChild(r) == r.num_children = 1

SweepIncomes ==
    IF pc = "cliff_done" THEN [k \in 1..Len(response) |-> response[k].income]
    ELSE LET firsts == SelectSeq(response, IsFirstChild)
         IN  [k \in 1..Len(firsts) |-> firsts[k].income]

SweepDone == pc \in {"cliff_done", "marginal_done", "pe_marginal_done"}

SweepIsRange(incl) ==
    LET lo == params.income_min
        hi == params.income_max
        step == params.income_step
        q == SweepIncomes
    IN  /\ \A k \in 1..Len(q) : q[k] = lo + (k - 1) * step /\ q[k] >= lo /\ q[k] <= hi
        /\ {q[k] : k \in 1..Len(q)} = ExpectedIncomes(lo, hi, step)
        /\ (\E k \in 1..Len(q) : q[k] = hi) <=> incl

\* C4 as stated: the sweep evaluates exactly min + k * step <= max, once each
\* and ascending, never outside [min, max], and evaluates max itself if and
\* only if (max - min) mod step = 0.
C4_Original ==
    SweepDone =>
        SweepIsRange((params.income_max - params.income_min) % params.income_step = 0)

\* C4 amended: as above, but max itself is evaluated if and only if
\* min <= max and (max - min) mod step = 0.
C4_SweepIsRange ==
    SweepDone =>
        SweepIsRange(/\ params.income_min <= params.income_max
                     /\ (params.income_max - params.income_min) % params.income_step = 0)

C4_Witness ==
    /\ pc = "cliff_done"
    /\ params.income_min = 0
    /\ params.income_max = 45000
    /\ params.income_step = 10000
    /\ Len(response) = 5
    /\ response[5].income = 40000

IncomeMajor(res) ==
    \A k \in 1..(Len(res) - 1) :
        \/ /\ res[k + 1].income = res[k].income
           /\ res[k + 1].num_children = res[k].num_children + 1
        \/ /\ res[k + 1].income > res[k].income
           /\ res[k + 1].num_children = 1

ChildMajor(res) ==
    \A k \in 1..(Len(res) - 1) :
        \/ /\ res[k + 1].num_children = res[k].num_children
           /\ res[k + 1].income > res[k].income
        \/ /\ res[k + 1].num_children = res[k].num_children + 1
           /\ res[k + 1].income < res[k].income

AnyMarginalPc == pc \in MockMarginalPcs \/ pc \in PeMarginalPcs \/ pc \in BatchEmitPcs

PointwiseParams(a, x, n) ==
    [NoParams EXCEPT !.marital_status = a.marital_status, !.state = a.state_code,
                     !.spouse_income = a.spouse_income,
                     !.employment_income = x, !.num_children = n]

\* C5: at every grid point (income, num_children) the batched strategy
\* simulates the same household as the pointwise strategy and obtains the
\* same net_income (both asked for household_net_income).
C5_BatchedEqualsPointwise ==
    (pc \in BatchEmitPcs /\ ~args.include_health_benefits) =>
        \A n \in 0..MAX_CHILDREN, k \in 0..(Len(income_points) - 1) :
            LET batched == with_axes(household_situation(n, args.marital_status,
                                         args.state_code, args.spouse_income),
                                     Len(income_points), INCOME_MIN, INCOME_MAX)
                p == PointwiseParams(args, income_points[k + 1], n)
            IN  /\ SimHousehold(batched, k) = SimHousehold(create_situation(p), 0)
                /\ all_net_incomes[n + 1][k + 1] = pe_point(p, oracle).net_income

\* C6: in every result of the formula engine a positive premium tax credit
\* comes with a Medicaid value of 0.
C6_MedicaidPtcExclusive ==
    /\ MockEvaluated => (locals.ptc > 0 => locals.medicaid = 0)
    /\ pc = "calculate_done" =>
         (response.premium_tax_credit > 0 => response.medicaid = 0)
    /\ pc \in {"cliff_loop", "cliff_done"} =>
         \A k \in 1..Len(results) :
             results[k].premium_tax_credit > 0 => results[k].medicaid = 0

C6_Witness ==
    /\ pc = "cliff_done"
    /\ \E k \in 1..Len(response) :
         response[k].premium_tax_credit > 0 /\ response[k].medicaid = 0
    /\ \E k \in 1..Len(response) :
         response[k].medicaid > 0 /\ response[k].income >= get_fpg(1)

Married(p) == p.marital_status = "married"

\* C7: at income = plateau_start and at income = phase_out_start the EITC
\* equals what the piece above the boundary gives there (max_credit in both
\* cases), for every bucket and marital status.
C7_EitcContinuous ==
    pc = "calculate_done" =>
        LET b == eitc_params(params.num_children, Married(params))
        IN  /\ locals.total_income = b.plateau_start =>
                 locals.eitc = b.max_credit * Scale
            /\ locals.total_income = b.phase_out_start =>
                 locals.eitc = Max(0, b.max_credit * Scale
                                      - (locals.total_income - b.phase_out_start)
                                        * b.phase_out_rate)

\* C8: for income >= 0 the EITC uses the bucket of num_children (3 or more
\* share one), with phase-out start 17640 / 29550 married and 9800 / 22300
\* single, and is min(income * rate, max) up to plateau_start, max up to
\* phase_out_start, max(0, max - (income - phase_out_start) * rate) above;
\* so 0 <= EITC <= max_credit and married EITC >= single EITC.
C8_EitcFormula ==
    MockEvaluated =>
        LET n == locals.params_copy.num_children
            m == Married(locals.params_copy)
            x == locals.total_income
            b == eitc_params(n, m)
        IN  /\ x >= 0
            /\ b = eitc_params(Min(n, 3), m)
            /\ b.phase_out_start = IF n = 0 THEN (IF m THEN 17640 ELSE 9800)
                                   ELSE (IF m THEN 29550 ELSE 22300)
            /\ locals.eitc =
                 IF x <= b.plateau_start
                 THEN Min(x * b.phase_in_rate, b.max_credit * Scale)
                 ELSE IF x <= b.phase_out_start THEN b.max_credit * Scale
                 ELSE Max(0, b.max_credit * Scale
                             - (x - b.phase_out_start) * b.phase_out_rate)
            /\ 0 <= locals.eitc /\ locals.eitc <= b.max_credit * Scale
            /\ calculate_eitc(x, n, TRUE) >= calculate_eitc(x, n, FALSE)

C8_Witness ==
    /\ pc = "calculate_done"
    /\ Married(params)
    /\ params.num_children = 3
    /\ locals.total_income = eitc_params(3, TRUE).plateau_start
    /\ locals.eitc < eitc_params(3, TRUE).max_credit * Scale
    /\ calculate_eitc(locals.total_income + 10000, 3, TRUE)
         > calculate_eitc(locals.total_income + 10000, 3, FALSE)

ClaimedFpg(size) ==
    IF size <= 8
    THEN <<15060, 20440, 25820, 31200, 36580, 41960, 47340, 52720>>[size]
    ELSE 52720 + 5380 * (size - 8)

\* C9: the guideline reported for a household of 1..8 is the 2024 table
\* value, above 8 it is 52720 + 5380 * (size - 8), and no smaller household
\* has a higher guideline.
C9_FpgTable ==
    pc = "calculate_done" =>
        /\ locals.household_size >= 1
        /\ response.federal_poverty_guideline = ClaimedFpg(locals.household_size)
        /\ \A t \in 1..locals.household_size :
             get_fpg(t) <= response.federal_poverty_guideline

C9_Witness ==
    /\ pc = "calculate_done"
    /\ locals.household_size = 10
    /\ response.federal_poverty_guideline = 63480

ClaimedMaxMonthly(size) ==
    IF size <= 6 THEN <<291, 535, 766, 973, 1155, 1386>>[size]
    ELSE 1386 + 200 * (size - 6)

\* C10: for a fixed household size SNAP never rises with income, is 0 for
\* every income above 1.3 * FPG(size), and otherwise is
\* 12 * max(0, max_monthly(size) - 0.3 * income / 12).
C10_SnapMonotone ==
    pc = "calculate_done" =>
        LET x == locals.total_income
            size == locals.household_size
        IN  /\ x * 10 > get_fpg(size) * 13 => locals.snap = 0
            /\ x * 10 <= get_fpg(size) * 13 =>
                 locals.snap = Max(0, 12 * ClaimedMaxMonthly(size) * Scale
                                      - 3 * x * (Scale \div 10))
            /\ \A y \in IncomePoints :
                 y >= x => calculate_snap(y, size) <= locals.snap

C10_Witness ==
    /\ pc = "calculate_done"
    /\ locals.household_size = 7
    /\ locals.total_income * 10 <= get_fpg(7) * 13
    /\ (locals.total_income + 1) * 10 > get_fpg(7) * 13
    /\ locals.snap > 0
    /\ calculate_snap(locals.total_income + 1, 7) = 0

ClaimedMedicaid(x, size, n) ==
    IF n > 0 /\ x < 2 * ClaimedFpg(size) THEN 3000 * n * Scale
    ELSE IF x * 100 < 138 * ClaimedFpg(size) THEN 6000 * Scale
    ELSE 0

\* C11: with household_size = 1 + (1 if married) + num_children, Medicaid is
\* 3000 * num_children when num_children > 0 and income < 2 * FPG(size),
\* otherwise 6000 when income < 1.38 * FPG(size), otherwise 0.  So with
\* children the adult branch never applies (the value is 3000 * num_children
\* or 0, and is 6000 only as 2 * 3000), and the first child of a household
\* below 1.38 * FPG takes the value from 6000 to 3000.
C11_MedicaidFormula ==
    MockEvaluated =>
        LET n == locals.params_copy.num_children
            size == 1 + (IF Married(locals.params_copy) THEN 1 ELSE 0) + n
            x == locals.total_income
        IN  /\ locals.household_size = size
            /\ locals.medicaid = ClaimedMedicaid(x, size, n)
            /\ n > 0 => /\ locals.medicaid \in {0, 3000 * n * Scale}
                        /\ locals.medicaid = 6000 * Scale => n = 2
            /\ (n = 0 /\ x * 100 < 138 * ClaimedFpg(size)) =>
                 /\ locals.medicaid = 6000 * Scale
                 /\ calculate_medicaid_value(x, size + 1, 1) = 3000 * Scale

C11_Witness ==
    /\ pc = "calculate_done"
    /\ params.num_children = 1
    /\ locals.total_income * 100 < 138 * get_fpg(locals.household_size - 1)
    /\ locals.medicaid = 3000 * Scale
    /\ calculate_medicaid_value(locals.total_income, locals.household_size - 1, 0)
         = 6000 * Scale

\* The claimed step function of income / FPG, in 1/Scale.
ClaimedRate(x, fpg) ==
    IF x * 10 <= fpg * 15 THEN 200
    ELSE IF x * 10 <= fpg * 20 THEN 400
    ELSE IF x * 10 <= fpg * 25 THEN 600
    ELSE IF x * 10 <= fpg * 30 THEN 800
    ELSE 850

ClaimedPtc(x, size) ==
    IF x < ClaimedFpg(size) \/ x > 4 * ClaimedFpg(size) THEN 0
    ELSE Max(0, 5000 * Scale - x * ClaimedRate(x, ClaimedFpg(size)))

\* C12: calculate_ptc is 0 when income < FPG(size) or income > 4 * FPG(size),
\* otherwise max(0, 5000 - income * rate) with rate 0.02 / 0.04 / 0.06 / 0.08
\* for income / FPG <= 1.5 / 2.0 / 2.5 / 3.0 and 0.085 above; it always lies
\* within [0, 5000].  (The handlers report it when the Medicaid value is 0.)
C12_PtcFormula ==
    MockEvaluated =>
        LET x == locals.total_income
            size == locals.household_size
            v == calculate_ptc(x, size)
        IN  /\ v = ClaimedPtc(x, size)
            /\ 0 <= v /\ v <= 5000 * Scale
            /\ locals.medicaid = 0 => locals.ptc = v

C12_Witness ==
    /\ pc = "calculate_done"
    /\ locals.total_income * 2 = get_fpg(locals.household_size) * 3
    /\ locals.ptc = 5000 * Scale - locals.total_income * 200
    /\ calculate_ptc(60000, locals.household_size) = 0
    /\ 60000 <= 4 * get_fpg(locals.household_size)

ProgramSum(r) ==
    r.snap + r.wic + r.medicaid + r.chip + r.premium_tax_credit
    + r.eitc + r.ctc + r.cdcc + r.housing_subsidy

\* C13: in every result of the formula engine total_benefits is the sum of
\* the program amounts reported in that result, market_income is
\* employment_income + spouse_income, and net_income is market_income +
\* total_benefits (a cliff record reports its employment income as income
\* and no market_income).
C13_TotalsAddUp ==
    /\ pc = "calculate_done" =>
         /\ response.total_benefits = ProgramSum(response)
         /\ response.market_income
              = (params.employment_income + params.spouse_income) * Scale
         /\ response.net_income = response.market_income + response.total_benefits
    /\ pc \in {"cliff_loop", "cliff_done"} =>
         \A k \in 1..Len(results) :
             /\ results[k].total_benefits = ProgramSum(results[k])
             /\ results[k].net_income
                  = (results[k].income + params.spouse_income) * Scale
                    + results[k].total_benefits

C13_Witness ==
    /\ pc = "calculate_done"
    /\ params.spouse_income > 0
    /\ params.employment_income > 0
    /\ response.snap > 0 /\ response.wic > 0 /\ response.medicaid > 0
    /\ response.eitc > 0 /\ response.ctc > 0 /\ response.cdcc > 0
    /\ response.net_income > response.market_income

\* C14: the marginal_tax_rate of /api/calculate is 12% for total income below
\* 44,726, 22% for total income not below 44,726 and below 95,376, and 24%
\* for total income above 95,376; it depends on total income only.
C14_MarginalTaxRate ==
    pc = "calculate_done" =>
        LET x == params.employment_income + params.spouse_income
            alone == [NoParams EXCEPT !.employment_income = x]
        IN  /\ x < 44726 => response.marginal_tax_rate = 12
            /\ (x >= 44726 /\ x < 95376) => response.marginal_tax_rate = 22
            /\ x > 95376 => response.marginal_tax_rate = 24
            /\ response.marginal_tax_rate
                 = benefits_response(benefits_body(alone)).marginal_tax_rate

Rejected(a) ==
    \/ a.marital_status \notin {"single", "married"}
    \/ a.state_code \notin US_STATES
    \/ a.spouse_income < 0

\* C16: calculate_marginal_child_benefits raises ValueError when
\* marital_status is neither single nor married, when state_code is not in
\* the fixed state set, or when spouse_income is negative, and only then; it
\* raises before any situation is built or simulated, so a rejected call has
\* computed no net income, emitted no record and returned nothing.
C16_RejectsBeforeEvaluating ==
    /\ pc = "batch_raised" =>
         /\ Rejected(args)
         /\ all_net_incomes = <<>>
         /\ results = <<>>
         /\ response = <<>>
    /\ pc \in {"batch_sim", "batch_emit", "batch_done"} => ~Rejected(args)

C16_Witness ==
    /\ pc = "batch_raised"
    /\ args.marital_status = "married"
    /\ args.state_code = "TX"
    /\ args.spouse_income < 0
    /\ all_net_incomes = <<>>

ClaimedMembers(n, married) ==
    <<"adult">> \o (IF married THEN <<"spouse">> ELSE <<>>)
    \o SubSeq(<<"child_1", "child_2", "child_3", "child_4">>, 1, n)

IsSpouse(person) == person.name = "spouse"

\* C18: create_household_situation raises ValueError for every
\* num_children < 0 and every num_children > MAX_CHILDREN; for num_children
\* in 0..MAX_CHILDREN it returns a situation of 1 + (1 if married) +
\* num_children people whose family, household, tax unit and SPM unit all
\* list adult, spouse (if married), child_1..child_n, with a spouse entry
\* carrying spouse_income exactly when marital_status = married.
C18_SituationShape ==
    pc = "situation_done" =>
        LET n == num_kids
            married == args.marital_status = "married"
        IN  /\ (n < 0 \/ n > MAX_CHILDREN) =>
                 response.raised # None /\ response.value = None
            /\ n \in 0..MAX_CHILDREN =>
                 /\ response.raised = None
                 /\ response.value # None
                 /\ LET s == response.value[1]
                        members == ClaimedMembers(n, married)
                        spouses == SelectSeq(s.people, IsSpouse)
                    IN  /\ Len(s.people) = 1 + (IF married THEN 1 ELSE 0) + n
                        /\ [k \in 1..Len(s.people) |-> s.people[k].name] = members
                        /\ s.families = members
                        /\ s.households.members = members
                        /\ s.tax_units = members
                        /\ s.spm_units = members
                        /\ Len(spouses) = (IF married THEN 1 ELSE 0)
                        /\ \A k \in 1..Len(spouses) :
                             spouses[k].employment_income = Some(args.spouse_income)
                        /\ \A k \in 1..Len(s.people) :
                             ~IsSpouse(s.people[k]) =>
                                 s.people[k].employment_income = None

C18_Witness ==
    /\ pc = "situation_done"
    /\ num_kids = MAX_CHILDREN + 1
    /\ args.marital_status = "married"
    /\ response.raised # None

Single(p) == p.marital_status = "single"

\* C19: a single household's request with spouse_income > 0 is accepted, and
\* its spouse_income changes nothing: the formula engine reports the same
\* program amounts, market_income and net_income as for spouse_income = 0,
\* and the situations built for the simulator are the same.
C19_SpouseIncomeIgnoredWhenSingle ==
    /\ (pc = "calculate_done" /\ Single(params)) =>
         response = benefits_response(benefits_body([params EXCEPT !.spouse_income = 0]))
    /\ (pc \in {"cliff_loop", "cliff_done"} /\ Single(params)) =>
         \A k \in 1..Len(results) :
             results[k] = cliff_record(cliff_body(
                              [params EXCEPT !.spouse_income = 0,
                                             !.employment_income = results[k].income]))
    /\ (pc \in PeMarginalPcs /\ Single(params)) =>
         \A n \in 0..pe_max_children(params) :
             create_situation(At(params, test_income, n))
               = create_situation([At(params, test_income, n) EXCEPT !.spouse_income = 0])
    /\ (pc \in {"batch_raised", "batch_sim", "batch_emit", "batch_done"}
        /\ Single(args) /\ args.spouse_income > 0 /\ args.state_code \in US_STATES) =>
         /\ pc # "batch_raised"
         /\ \A n \in 0..MAX_CHILDREN :
              household_situation(n, args.marital_status, args.state_code,
                                  args.spouse_income)
                = household_situation(n, args.marital_status, args.state_code, 0)

\* C15: every program formula returns an amount >= 0 for every input,
\* negative incomes, negative child counts and household sizes outside the
\* tables included (each formula is defined on all of them).
C15_FormulasNonNegative ==
    MockEvaluated =>
        /\ get_fpg(locals.household_size) >= 0
        /\ calculate_ptc(locals.total_income, locals.household_size) >= 0
        /\ locals.snap >= 0 /\ locals.medicaid >= 0 /\ locals.wic >= 0
        /\ locals.ptc >= 0 /\ locals.eitc >= 0 /\ locals.ctc >= 0
        /\ locals.cdcc >= 0

InvalidRequest(p) ==
    \/ p.marital_status \notin {"single", "married"}
    \/ p.state \notin US_STATES
    \/ p.employment_income < 0
    \/ p.spouse_income < 0
    \/ p.num_children < 0

FailedPcs == {"cliff_raised", "marginal_raised", "pe_marginal_error"}

\* C17: a request to /api/calculate, /api/calculate_cliff or
\* /api/marginal_child with an unknown marital status, an unknown state, a
\* negative income or a negative num_children is answered with an error
\* before any formula or simulation is evaluated; no amounts are computed
\* for it.
C17_FailFast ==
    (pc # "idle" /\ InvalidRequest(params)) =>
        /\ pc \in FailedPcs
        /\ locals = NoLocals
        /\ results = <<>>

\* C20: an exception raised while a handler computes (income_step = 0 makes
\* range() raise) ends the request with status 500 and the JSON body
\* {"error": <exception text>}; no result array is returned.
C20_ExceptionsAnswered ==
    /\ (pc \notin {"idle", "calculate_done"} /\ range_raises(params.income_step)) =>
         pc \in FailedPcs
    /\ pc \in FailedPcs =>
         /\ response.status = 500
         /\ response.json # None
         /\ DOMAIN response.json[1] = {"error"}
         /\ range_raises(params.income_step) => response.json[1].error = RangeError

\* The highest child count the request asks for: its max_children, or the
\* default d when the field is absent.
RequestedMax(p, d) == IF p.max_children = None THEN d ELSE p.max_children[1]

\* C21: a finished /api/marginal_child sweep holds, for each grid income,
\* exactly the records for num_children = 1..M, where M is the request's
\* max_children, or 4 or 5 when the request has no such field.
C21_MaxChildrenHonoured ==
    pc \in {"marginal_done", "pe_marginal_done"} =>
        \E d \in {4, 5} :
            RecordsPerIncome(response, RequestedMax(params, d),
                ExpectedIncomes(params.income_min, params.income_max,
                                params.income_step))

\* C22: with the formula engine and spouse_income = 0 every marginal record
\* (children 1..4, grid incomes within [0, 200000], either marital status)
\* has a strictly positive marginal_benefit; so has the 1st child of a single
\* household at income 20,000.
C22_MarginalBenefitPositive ==
    (pc \in MockMarginalPcs /\ params.spouse_income = 0) =>
        /\ \A k \in 1..Len(results) :
             /\ results[k].income \in 0..200000
             /\ results[k].num_children \in 1..4
             /\ results[k].marginal_benefit > 0
        /\ Single(params) =>
             marginal_body(At(params, 20000, 1)).net_income
               > marginal_body(At(params, 20000, 0)).net_income

C22_Witness ==
    /\ pc = "marginal_done"
    /\ Single(params)
    /\ params.spouse_income = 0
    /\ params.income_max = 200000
    /\ Len(response) = 4 * 81
    /\ \E k \in 1..Len(response) :
         /\ response[k].income = 20000
         /\ response[k].num_children = 1
         /\ response[k].marginal_benefit = 5015 * Scale
    /\ response[Len(response)].income = 200000
    /\ response[Len(response)].marginal_benefit = 2000 * Scale

\* What the body returns for arguments a that pass validation.
UncachedResult(a, o) ==
    LET nets == [n \in 1..(MAX_CHILDREN + 1) |-> batch_net_incomes(n - 1, a, o)]
        L == Len(income_points)
    IN  [j \in 1..(MAX_CHILDREN * L) |->
            batch_record(((j - 1) \div L) + 1, (j - 1) % L, nets)]

ValidArgs(a) ==
    validate_inputs(a.marital_status, a.state_code, a.spouse_income,
                    a.include_health_benefits) = "ok"

\* C23: after any sequence of calls, a call of the memoised
\* calculate_marginal_child_benefits that returns gives exactly what the
\* uncached body gives for its own arguments; every stored value is the
\* uncached result of its own key, and a call that raised stored nothing.
C23_CacheTransparent ==
    /\ pc = "batch_done" =>
         /\ response = UncachedResult(args, oracle)
         /\ \A k \in DOMAIN cache : cache[k] = UncachedResult(k, oracle)
    /\ \A k \in DOMAIN cache : ValidArgs(k)
    /\ pc = "batch_raised" => args \notin DOMAIN cache

C23_Witness ==
    /\ pc = "batch_done"
    /\ results = <<>>
    /\ Cardinality(DOMAIN cache) >= 2
    /\ args.spouse_income = 30000
    /\ response = cache[args]
    /\ \E k \in DOMAIN cache : cache[k] # response

\* the copy has the request's fields, each with the request's value except those named
SameExcept(copy, p, fields) ==
    /\ DOMAIN copy = DOMAIN p
    /\ \A f \in DOMAIN p \ fields : copy[f] = p[f]

\* C24: at every grid point of a sweep of the formula engine the evaluated
\* copy differs from the request only in employment_income (cliff) or in
\* employment_income and num_children (marginal), which hold the grid
\* point, and the request itself is the same before and after every step
\* of the sweep.
C24_SweepSubstitutesOnly ==
    [][/\ pc \in {"cliff_loop", "marginal_outer", "marginal_inner"} => params' = params
       /\ (pc = "cliff_loop" /\ results' # results) =>
            /\ SameExcept(locals'.params_copy, params, {"employment_income"})
            /\ locals'.params_copy.employment_income = test_income'
       /\ (pc = "marginal_inner" /\ num_kids' # num_kids) =>
            /\ SameExcept(locals'.params_copy, params,
                          {"employment_income", "num_children"})
            /\ locals'.params_copy.employment_income = test_income
            /\ locals'.params_copy.num_children = num_kids]_vars

C24_Witness ==
    /\ pc = "marginal_inner"
    /\ num_kids = 4
    /\ Len(results) > 4
    /\ params.spouse_income = 12000
    /\ params.marital_status = "married"
    /\ params.num_children = 2
    /\ locals.params_copy.num_children = 3
    /\ locals.params_copy.employment_income # params.employment_income
    /\ locals.params_copy.spouse_income = 12000

\* C25: a 200 answer of the remote-API backend's /api/calculate_cliff has
\* exactly one object per grid income, in grid order, and a 200 answer of
\* its /api/marginal_child has one record per grid income and child count
\* 1..max_children: no grid point whose remote evaluation failed is missing.
C25_RemoteFailureNotSwallowed ==
    LET incomes == ExpectedIncomes(params.income_min, params.income_max,
                                   params.income_step)
    IN  /\ pc = "remote_cliff_done" =>
             /\ Len(response) = Cardinality(incomes)
             /\ \A x \in incomes :
                  Cardinality({k \in 1..Len(response) : response[k].income = x}) = 1
        /\ pc = "remote_marginal_done" =>
             RecordsPerIncome(response, remote_max_children(params), incomes)

\* the remote evaluation of the request's household at (income, kids)
RemoteNet(p, income, kids, o) == remote_point(marginal_params_copy(p, income, kids), o).net_income

\* C26: every record the remote-API backend's marginal sweep has emitted
\* for n children holds the net income of n children minus the net income
\* of n - 1 children at the same income.
C26_BaselineNeverStale ==
    pc \in {"remote_marginal_outer", "remote_marginal_inner", "remote_marginal_done"} =>
        \A k \in 1..Len(results) :
            results[k].marginal_benefit =
                RemoteNet(params, results[k].income, results[k].num_children, oracle)
                - RemoteNet(params, results[k].income, results[k].num_children - 1, oracle)

LabelIsEvaluatedIncome ==
    /\ it = test_income
    /\ test_income = grid.min + (i - 1) * grid.step

C28_RecomputedExactlyWhenAsked ==
    [][/\ IF widgets'.calculate_button \/ session_state.df = None
          THEN computed_from' = Some(call_args(widgets'))
          ELSE /\ computed_from' = computed_from
               /\ session_state'.df = session_state.df
       /\ computed_from' # None
       /\ session_state'.df =
              Some(app_marginal_child_benefits(computed_from'[1], oracle))
       /\ df' = session_state'.df]_vars

C28_Witness ==
    /\ pc = "rendered"
    /\ ~widgets.calculate_button
    /\ computed_from # None
    /\ computed_from # Some(call_args(DefaultWidgets))
    /\ call_args(widgets) # computed_from[1]
    /\ df = session_state.df
    /\ df # Some(app_marginal_child_benefits(call_args(widgets), oracle))

\* C29: in a cliff response for a single childless household without
\* spouse income, the net income at 21,000 is strictly lower than the net
\* income at 20,000.
C29_CliffAtMedicaidThreshold ==
    (pc = "cliff_done" /\ params.marital_status = "single"
        /\ params.num_children = 0 /\ params.spouse_income = 0) =>
        \A j \in 1..Len(response), k \in 1..Len(response) :
            (response[j].income = 20000 /\ response[k].income = 21000) =>
                response[k].net_income < response[j].net_income

C29_Witness ==
    /\ pc = "cliff_done"
    /\ params.marital_status = "single"
    /\ params.num_children = 0
    /\ params.spouse_income = 0
    /\ Len(response) = 2
    /\ response[1].income = 20000
    /\ response[1].medicaid = 6000 * Scale
    /\ response[1].net_income = 26000 * Scale
    /\ response[2].income = 21000
    /\ response[2].medicaid = 0
    /\ response[2].premium_tax_credit = 4580 * Scale
    /\ response[2].net_income = 25580 * Scale

\* what POST /api/calculate answers for the request p
CalculateAnswer(p) == benefits_response(benefits_body(p))

ProgramFields ==
    {"snap", "wic", "medicaid", "chip", "premium_tax_credit", "eitc", "ctc",
     "cdcc", "housing_subsidy", "total_benefits", "net_income"}

\* C30: each record of the formula engine's cliff sweep has the program
\* amounts and net_income that /api/calculate answers for the same
\* household with employment_income set to the record's income, and each
\* record of its marginal sweep has the net_income that /api/calculate
\* answers for the record's income and num_children.
C30_EndpointsAgree ==
    /\ (pc = "cliff_loop" /\ Len(results) > 0) =>
         LET r == results[Len(results)]
             c == CalculateAnswer([params EXCEPT !.employment_income = r.income])
         IN  \A f \in ProgramFields : r[f] = c[f]
    /\ (pc \in {"marginal_inner", "marginal_outer"} /\ Len(results) > 0) =>
         LET r == results[Len(results)]
         IN  r.net_income =
                 CalculateAnswer([params EXCEPT !.employment_income = r.income,
                                                !.num_children = r.num_children]).net_income

C30_Witness ==
    /\ pc = "cliff_loop"
    /\ Len(results) >= 3
    /\ params.marital_status = "married"
    /\ params.spouse_income = 12000
    /\ params.num_children = 2
    /\ results[Len(results)].income = 10000
    /\ results[Len(results)].snap > 0
    /\ results[Len(results)].eitc > 0
    /\ results[Len(results)].net_income =
           CalculateAnswer([params EXCEPT !.employment_income = 10000]).net_income

====
